---- MODULE Spec2Model ----
(***************************************************************************)
(* Session lifecycle controller of frontend/src/hooks/useInternetIdentity.ts *)
(* (InternetIdentityProvider): the React state client / identity /          *)
(* isInitializing / error, the mounted ref, the initialisation effect and   *)
(* the login / logout / refresh callbacks, each cut at its await points.    *)
(* The external AuthClient is an environment: every promise it returns is   *)
(* settled by a step of its own, with any outcome the client can produce,   *)
(* and the awaiting continuation resumes in a later step.                   *)
(***************************************************************************)
EXTENDS Naturals, FiniteSets, Sequences, TLC

(* ------------------------------ bounds --------------------------------- *)

\* number of login / logout / refresh calls the consumers make in one run
MaxCalls == 2

Calls == 1..MaxCalls

\* the tasks that write the state: 0 is the provider's own effect, c > 0 a call
InitTask == 0

(* ------------------------------ values --------------------------------- *)

\* useState<AuthClient | null>(null): null, or the one handle create() returned
NullClient == "null"

AuthClient == "AuthClient"

\* useState<Identity | null>(null)
NullIdentity == "<null>"

\* the identities c.getIdentity() can return, each named by its principal's text
Identities == {"abc-def", "2vxsx-fae"}

\* useState<string | null>(null)
NullError == "<null>"

NotReady == "AuthClient not ready"

\* values the external client can throw, reject with, or pass to onError:
\* an Error object with a message, and a bare string
Thrown ==
  { [type |-> "Error", text |-> "network down"],
    [type |-> "string", text |-> "denied"] }

NoThrown == [type |-> "none", text |-> ""]

\* String(e) of JavaScript: a string is itself, an Error prints as "Error: message"
String(e) ==
  IF e.type = "string" THEN e.text ELSE "Error: " \o e.text

\* mutant: String(e) alone, without e?.message
errMessage_alwaysString(e) == String(e)

\* e?.message ?? String(e): only an Error object has a message
errMessage(e) ==
  IF e.type = "Error" THEN e.text ELSE String(e)

\* typeof err === 'string' ? err : (err as Error)?.message ?? String(err)
onErrorMessage(err) ==
  IF err.type = "string" THEN err.text
  ELSE IF err.type = "Error" THEN err.text
  ELSE String(err)

(* a promise of the external client: not settled yet, or settled with an outcome *)
Pending == [tag |-> "pending", e |-> NoThrown]

Fulfilled(t) == [tag |-> t, e |-> NoThrown]

Rejected(e) == [tag |-> "throw", e |-> e]

\* AuthClient.create(): a handle, or ClientCreationError
CreateOutcomes == {Fulfilled("ok")} \cup {Rejected(e) : e \in Thrown}

\* handle.isAuthenticated(): true, false, or a failure
IsAuthenticatedOutcomes ==
  {Fulfilled("true"), Fulfilled("false")} \cup {Rejected(e) : e \in Thrown}

\* handle.logout(): best effort
LogoutOutcomes == {Fulfilled("ok")} \cup {Rejected(e) : e \in Thrown}

(* the options a caller hands to login: which of the recognised keys it carries *)
LoginOpts == [identityProvider : BOOLEAN, onSuccess : BOOLEAN, onError : BOOLEAN]

\* the completion callbacks the client holds for a handshake; none outside one
NoCallbacks == [onSuccess |-> "none", onError |-> "none"]

\* the object literal passed to client.login: the controller's entries first,
\* then ...opts spread over them, so a key of opts replaces the controller's
loginOptions(opts) ==
  [ identityProvider |->
      IF opts.identityProvider THEN "opts" ELSE "resolveIdentityProvider",
    onSuccess |-> IF opts.onSuccess THEN "caller" ELSE "controller",
    onError |-> IF opts.onError THEN "caller" ELSE "controller" ]


(* ------------------------------- state --------------------------------- *)

VARIABLES
  client,          \* const [client, setClient] = useState(null)
  identity,        \* const [identity, setIdentity] = useState(null)
  isInitializing,  \* const [isInitializing, setInitializing] = useState(true)
  error,           \* const [error, setError] = useState(null)
  mounted,         \* const mounted = useRef(true)
  init,            \* the async function of the effect: position, awaited promise
  calls,           \* the login / logout / refresh calls: kind, position, awaited promise
  lastWrite        \* history: the task that last called setIdentity, and setError

vars == <<client, identity, isInitializing, error, mounted, init, calls, lastWrite>>

\* the position of a task: pc is the await it is suspended at, settled the promise
\* it awaits, ret the return path the readSession it awaited has taken
IdleCall ==
  [kind |-> "none", pc |-> "idle", settled |-> Pending, ret |-> "none",
   callbacks |-> NoCallbacks]

Awaiting(kind, pc) ==
  [kind |-> kind, pc |-> pc, settled |-> Pending, ret |-> "none",
   callbacks |-> NoCallbacks]

\* a call whose awaitable has completed keeps its kind and how it completed
Completed(kind, how) == Awaiting(kind, how)

InitAt(pc) == [pc |-> pc, settled |-> Pending, ret |-> "none"]

Init ==
  /\ client = NullClient
  /\ identity = NullIdentity
  /\ isInitializing = TRUE
  /\ error = NullError
  /\ mounted = TRUE
  /\ init = InitAt("start")
  /\ calls = [c \in Calls |-> IdleCall]
  /\ lastWrite = [identity |-> InitTask, error |-> InitTask]

\* value.isAuthenticated: !!identity
isAuthenticated == identity # NullIdentity

\* value.principalText is string | null
NullText == "<null>"

\* mutant: the test of p inverted, p ? null : String(p.toText())
principalTextOf_inverted(id) ==
  IF id = NullIdentity THEN id ELSE NullText

\* (identity as any)?.getPrincipal?.() then p ? String(p.toText()) : null; an
\* identity is named by the text of its principal
principalTextOf(id) ==
  IF id = NullIdentity THEN NullText ELSE id

\* value.principalText: useMemo over identity
principalText == principalTextOf(identity)

(* ---------------------------- readSession ------------------------------ *)

\* mutant: readSession without the two "if (!mounted.current) return" lines
readSession_noMountedCheck(o, id) ==
  IF o.tag = "throw"
  THEN /\ error' = errMessage(o.e)
       /\ identity' = NullIdentity
  ELSE /\ identity' = IF o.tag = "true" THEN id ELSE NullIdentity
       /\ UNCHANGED error

\* mutant: readSession whose catch block sets the error and keeps the identity
readSession_failOpen(o, id) ==
  IF o.tag = "throw"
  THEN IF ~mounted
       THEN UNCHANGED <<identity, error>>
       ELSE /\ error' = errMessage(o.e)
            /\ UNCHANGED identity
  ELSE IF ~mounted
       THEN UNCHANGED <<identity, error>>
       ELSE /\ identity' = IF o.tag = "true" THEN id ELSE NullIdentity
            /\ UNCHANGED error

\* mutant: readSession with the test of authed inverted
readSession_inverted(o, id) ==
  IF o.tag = "throw"
  THEN IF ~mounted
       THEN UNCHANGED <<identity, error>>
       ELSE /\ error' = errMessage(o.e)
            /\ identity' = NullIdentity
  ELSE IF ~mounted
       THEN UNCHANGED <<identity, error>>
       ELSE /\ identity' = IF o.tag = "true" THEN NullIdentity ELSE id
            /\ UNCHANGED error

\* mutant: a readSession that writes only an authenticated result, so that an
\* anonymous result of a later completion does not replace an earlier identity
readSession_sticky(o, id) ==
  IF o.tag = "throw"
  THEN IF ~mounted
       THEN UNCHANGED <<identity, error>>
       ELSE /\ error' = errMessage(o.e)
            /\ identity' = NullIdentity
  ELSE IF ~mounted
       THEN UNCHANGED <<identity, error>>
       ELSE /\ identity' = IF o.tag = "true" THEN id ELSE identity
            /\ UNCHANGED error

\* the continuation of readSession after await c.isAuthenticated() settled
\* with outcome o; id is what c.getIdentity() returns
readSession(o, id) ==
  IF o.tag = "throw"
  THEN IF ~mounted
       THEN UNCHANGED <<identity, error>>
       ELSE /\ error' = errMessage(o.e)
            /\ identity' = NullIdentity
  ELSE IF ~mounted
       THEN UNCHANGED <<identity, error>>
       ELSE /\ identity' = IF o.tag = "true" THEN id ELSE NullIdentity
            /\ UNCHANGED error

\* the return path that continuation takes
readSessionReturn(o) ==
  IF ~mounted THEN "unmounted"
  ELSE IF o.tag = "throw" THEN "failed"
  ELSE IF o.tag = "true" THEN "authed"
  ELSE "anonymous"

\* history of a readSession run by task t that took return path ret
ReadSessionWrites(t, ret) ==
  lastWrite' = [identity |-> IF ret = "unmounted" THEN lastWrite.identity ELSE t,
                error |-> IF ret = "failed" THEN t ELSE lastWrite.error]

(* --------------------------- initialisation ---------------------------- *)

\* the effect runs: mounted.current = true, AuthClient.create() is called
InitializeStart ==
  /\ init.pc = "start"
  /\ mounted' = TRUE
  /\ init' = InitAt("create")
  /\ UNCHANGED <<client, identity, isInitializing, error, calls, lastWrite>>

\* the external factory settles the promise of create()
CreateSettles ==
  /\ init.pc = "create"
  /\ init.settled = Pending
  /\ \E o \in CreateOutcomes : init' = [init EXCEPT !.settled = o]
  /\ UNCHANGED <<client, identity, isInitializing, error, mounted, calls, lastWrite>>

\* mutant: setInitializing(false) only at the end of the try block, so that the
\* exit through catch leaves the flag alone
initFinally_notOnFailure ==
  isInitializing' = IF mounted /\ init.pc = "readSession" THEN FALSE ELSE isInitializing

\* finally { if (mounted.current) setInitializing(false) }
initFinally ==
  isInitializing' = IF mounted THEN FALSE ELSE isInitializing

\* the effect's function resumes after await AuthClient.create()
InitAfterCreate ==
  /\ init.pc = "create"
  /\ init.settled # Pending
  /\ IF init.settled.tag = "ok"
     THEN IF ~mounted
          THEN /\ initFinally
               /\ init' = InitAt("done")
               /\ UNCHANGED <<client, error, lastWrite>>
          ELSE /\ client' = AuthClient
               /\ init' = InitAt("isAuthenticated")
               /\ UNCHANGED <<isInitializing, error, lastWrite>>
     ELSE /\ error' = IF mounted THEN errMessage(init.settled.e) ELSE error
          /\ lastWrite' = IF mounted THEN [lastWrite EXCEPT !.error = InitTask]
                          ELSE lastWrite
          /\ initFinally
          /\ init' = InitAt("done")
          /\ UNCHANGED client
  /\ UNCHANGED <<identity, mounted, calls>>

\* the client settles the isAuthenticated() promise of the initial readSession
InitIsAuthenticatedSettles ==
  /\ init.pc = "isAuthenticated"
  /\ init.settled = Pending
  /\ \E o \in IsAuthenticatedOutcomes : init' = [init EXCEPT !.settled = o]
  /\ UNCHANGED <<client, identity, isInitializing, error, mounted, calls, lastWrite>>

\* the initial readSession resumes, writes and returns
InitReadSession ==
  /\ init.pc = "isAuthenticated"
  /\ init.settled # Pending
  /\ \E id \in Identities : readSession(init.settled, id)
  /\ init' = [pc |-> "readSession", settled |-> Pending,
              ret |-> readSessionReturn(init.settled)]
  /\ ReadSessionWrites(InitTask, readSessionReturn(init.settled))
  /\ UNCHANGED <<client, isInitializing, mounted, calls>>

\* the effect's function resumes after await readSession(c) and leaves through finally
InitAfterReadSession ==
  /\ init.pc = "readSession"
  /\ initFinally
  /\ init' = InitAt("done")
  /\ UNCHANGED <<client, identity, error, mounted, calls, lastWrite>>

\* the effect's cleanup: mounted.current = false
Teardown ==
  /\ init.pc # "start"
  /\ mounted
  /\ mounted' = FALSE
  /\ UNCHANGED <<client, identity, isInitializing, error, init, calls, lastWrite>>

(* -------------------------------- calls -------------------------------- *)

\* consumers' calls take the slots in order
CanStart(c) ==
  /\ calls[c].pc = "idle"
  /\ IF c = 1 THEN TRUE ELSE calls[c - 1].pc # "idle"

\* mutant: login without the "if (!client)" guard
login_noGuard(c, opts) ==
  /\ error' = NullError
  /\ calls' = [calls EXCEPT ![c] =
                 [Awaiting("login", "handshake") EXCEPT !.callbacks =
                    [onSuccess |-> loginOptions(opts).onSuccess,
                     onError |-> loginOptions(opts).onError]]]
  /\ UNCHANGED <<client, identity, isInitializing, mounted, init>>

\* mutant: login without the leading setError(null)
login_keepsError(c, opts) ==
  /\ IF client = NullClient
     THEN /\ error' = NotReady
          /\ calls' = [calls EXCEPT ![c] = Completed("login", "resolved")]
     ELSE /\ UNCHANGED error
          /\ calls' = [calls EXCEPT ![c] =
                         [Awaiting("login", "handshake") EXCEPT !.callbacks =
                            [onSuccess |-> loginOptions(opts).onSuccess,
                             onError |-> loginOptions(opts).onError]]]
  /\ UNCHANGED <<client, identity, isInitializing, mounted, init>>

\* mutant: login that shows the loading state again while the handshake runs
login_setsInitializing(c, opts) ==
  /\ IF client = NullClient
     THEN /\ error' = NotReady
          /\ calls' = [calls EXCEPT ![c] = Completed("login", "resolved")]
          /\ UNCHANGED isInitializing
     ELSE /\ error' = NullError
          /\ isInitializing' = TRUE
          /\ calls' = [calls EXCEPT ![c] =
                         [Awaiting("login", "handshake") EXCEPT !.callbacks =
                            [onSuccess |-> loginOptions(opts).onSuccess,
                             onError |-> loginOptions(opts).onError]]]
  /\ UNCHANGED <<client, identity, mounted, init>>

\* login(opts) up to client.login(...): setError(null), the guard, the handshake starts
login(c, opts) ==
  /\ IF client = NullClient
     THEN /\ error' = NotReady
          /\ calls' = [calls EXCEPT ![c] = Completed("login", "resolved")]
     ELSE /\ error' = NullError
          /\ calls' = [calls EXCEPT ![c] =
                         [Awaiting("login", "handshake") EXCEPT !.callbacks =
                            [onSuccess |-> loginOptions(opts).onSuccess,
                             onError |-> loginOptions(opts).onError]]]
  /\ UNCHANGED <<client, identity, isInitializing, mounted, init>>

Login(c) ==
  /\ CanStart(c)
  /\ \E opts \in LoginOpts : login(c, opts)
  /\ lastWrite' = [lastWrite EXCEPT !.error = c]

\* mutant: an onSuccess that trusts the handshake and stores
\* client.getIdentity() without asking isAuthenticated()
HandshakeSuccess_trustsHandshake(c) ==
  /\ calls[c].pc = "handshake"
  /\ calls[c].settled = Pending
  /\ IF calls[c].callbacks.onSuccess = "controller"
     THEN /\ calls' = [calls EXCEPT ![c] = Completed("login", "resolved")]
          /\ \E id \in Identities : identity' = IF mounted THEN id ELSE identity
          /\ lastWrite' = IF mounted THEN [lastWrite EXCEPT !.identity = c] ELSE lastWrite
     ELSE /\ calls' = [calls EXCEPT ![c].settled = Fulfilled("caller onSuccess")]
          /\ UNCHANGED <<identity, lastWrite>>
  /\ UNCHANGED <<client, isInitializing, error, mounted, init>>

\* the client invokes the onSuccess it was given
HandshakeSuccess(c) ==
  /\ calls[c].pc = "handshake"
  /\ calls[c].settled = Pending
  /\ IF calls[c].callbacks.onSuccess = "controller"
     THEN \* await readSession(client): c.isAuthenticated() is called
          calls' = [calls EXCEPT ![c] = Awaiting("login", "isAuthenticated")]
     ELSE \* the caller's onSuccess ran: the controller's promise is not settled
          calls' = [calls EXCEPT ![c].settled = Fulfilled("caller onSuccess")]
  /\ UNCHANGED <<client, identity, isInitializing, error, mounted, init, lastWrite>>

\* the client invokes the onError it was given, with err
onError(c, err) ==
  /\ IF calls[c].callbacks.onError = "controller"
     THEN /\ error' = onErrorMessage(err)
          /\ lastWrite' = [lastWrite EXCEPT !.error = c]
          /\ calls' = [calls EXCEPT ![c] = Completed("login", "rejected")]
     ELSE /\ calls' = [calls EXCEPT ![c].settled = Fulfilled("caller onError")]
          /\ UNCHANGED <<error, lastWrite>>
  /\ UNCHANGED <<client, identity, isInitializing, mounted, init>>

HandshakeError(c) ==
  /\ calls[c].pc = "handshake"
  /\ calls[c].settled = Pending
  /\ \E err \in Thrown : onError(c, err)

\* mutant: a login without .catch(reject), so that a rejection of the
\* client.login(...) promise settles nothing
loginCatch_missing(c, e) ==
  /\ calls' = [calls EXCEPT ![c].settled = Rejected(e)]
  /\ UNCHANGED <<client, identity, isInitializing, error, mounted, init, lastWrite>>

\* the promise of client.login(...) itself rejects with e: .catch(reject)
loginCatch(c, e) ==
  /\ calls' = [calls EXCEPT ![c] = Completed("login", "rejected")]
  /\ UNCHANGED <<client, identity, isInitializing, error, mounted, init, lastWrite>>

LoginCallRejects(c) ==
  /\ calls[c].pc = "handshake"
  /\ calls[c].settled = Pending
  /\ \E e \in Thrown : loginCatch(c, e)

\* mutant: refresh that reports the missing client the way login does
refresh_setsError(c) ==
  /\ IF client = NullClient
     THEN /\ error' = NotReady
          /\ calls' = [calls EXCEPT ![c] = Completed("refresh", "resolved")]
     ELSE /\ UNCHANGED error
          /\ calls' = [calls EXCEPT ![c] = Awaiting("refresh", "isAuthenticated")]
  /\ UNCHANGED <<client, identity, isInitializing, mounted, init, lastWrite>>

\* refresh(): if (!client) return; await readSession(client)
refresh(c) ==
  /\ IF client = NullClient
     THEN calls' = [calls EXCEPT ![c] = Completed("refresh", "resolved")]
     ELSE calls' = [calls EXCEPT ![c] = Awaiting("refresh", "isAuthenticated")]
  /\ UNCHANGED <<client, identity, isInitializing, error, mounted, init, lastWrite>>

Refresh(c) ==
  /\ CanStart(c)
  /\ refresh(c)

\* the client settles the isAuthenticated() promise of a login's or refresh's readSession
IsAuthenticatedSettles(c) ==
  /\ calls[c].pc = "isAuthenticated"
  /\ calls[c].settled = Pending
  /\ \E o \in IsAuthenticatedOutcomes : calls' = [calls EXCEPT ![c].settled = o]
  /\ UNCHANGED <<client, identity, isInitializing, error, mounted, init, lastWrite>>

\* readSession of a login or refresh resumes, writes and returns
ReadSession(c) ==
  /\ calls[c].pc = "isAuthenticated"
  /\ calls[c].settled # Pending
  /\ \E id \in Identities : readSession(calls[c].settled, id)
  /\ calls' = [calls EXCEPT ![c].pc = "readSession", ![c].settled = Pending,
                            ![c].ret = readSessionReturn(calls[c].settled)]
  /\ ReadSessionWrites(c, readSessionReturn(calls[c].settled))
  /\ UNCHANGED <<client, isInitializing, mounted, init>>

\* the caller of readSession resumes: onSuccess calls resolve(), refresh returns
AfterReadSession(c) ==
  /\ calls[c].pc = "readSession"
  /\ calls' = [calls EXCEPT ![c] = Completed(calls[c].kind, "resolved")]
  /\ UNCHANGED <<client, identity, isInitializing, error, mounted, init, lastWrite>>

\* mutant: logout with the "if (!client) return" guard before setError(null)
logout_guardFirst(c) ==
  /\ IF client = NullClient
     THEN /\ UNCHANGED error
          /\ calls' = [calls EXCEPT ![c] = Completed("logout", "resolved")]
     ELSE /\ error' = NullError
          /\ calls' = [calls EXCEPT ![c] = Awaiting("logout", "logout")]
  /\ UNCHANGED <<client, identity, isInitializing, mounted, init>>

\* logout() up to await client.logout()
logout(c) ==
  /\ error' = NullError
  /\ IF client = NullClient
     THEN calls' = [calls EXCEPT ![c] = Completed("logout", "resolved")]
     ELSE calls' = [calls EXCEPT ![c] = Awaiting("logout", "logout")]
  /\ UNCHANGED <<client, identity, isInitializing, mounted, init>>

Logout(c) ==
  /\ CanStart(c)
  /\ logout(c)
  /\ lastWrite' = [lastWrite EXCEPT !.error = c]

\* the client settles the promise of logout()
LogoutSettles(c) ==
  /\ calls[c].pc = "logout"
  /\ calls[c].settled = Pending
  /\ \E o \in LogoutOutcomes : calls' = [calls EXCEPT ![c].settled = o]
  /\ UNCHANGED <<client, identity, isInitializing, error, mounted, init, lastWrite>>

\* mutant: setIdentity(null) after the await instead of in finally, so that a
\* failed client.logout() skips it
logoutFinally_onlyOnSuccess(c) ==
  /\ identity' = IF mounted /\ calls[c].settled.tag # "throw"
                 THEN NullIdentity ELSE identity
  /\ calls' = [calls EXCEPT ![c] =
                 Completed("logout",
                           IF calls[c].settled.tag = "throw" THEN "rejected" ELSE "resolved")]
  /\ UNCHANGED <<client, isInitializing, error, mounted, init>>

\* mutant: a logout that also drops the client in finally
logoutFinally_dropsClient(c) ==
  /\ identity' = IF mounted THEN NullIdentity ELSE identity
  /\ client' = IF mounted THEN NullClient ELSE client
  /\ calls' = [calls EXCEPT ![c] =
                 Completed("logout",
                           IF calls[c].settled.tag = "throw" THEN "rejected" ELSE "resolved")]
  /\ UNCHANGED <<isInitializing, error, mounted, init>>

\* try { await client.logout() } finally { if (mounted.current) setIdentity(null) }
logoutFinally(c) ==
  /\ identity' = IF mounted THEN NullIdentity ELSE identity
  /\ calls' = [calls EXCEPT ![c] =
                 Completed("logout",
                           IF calls[c].settled.tag = "throw" THEN "rejected" ELSE "resolved")]
  /\ UNCHANGED <<client, isInitializing, error, mounted, init>>

LogoutResumes(c) ==
  /\ calls[c].pc = "logout"
  /\ calls[c].settled # Pending
  /\ logoutFinally(c)
  /\ lastWrite' = IF mounted THEN [lastWrite EXCEPT !.identity = c] ELSE lastWrite

(* ---------------------------- specification ---------------------------- *)

Next ==
  \/ InitializeStart
  \/ CreateSettles
  \/ InitAfterCreate
  \/ InitIsAuthenticatedSettles
  \/ InitReadSession
  \/ InitAfterReadSession
  \/ Teardown
  \/ \E c \in Calls : Login(c)
  \/ \E c \in Calls : HandshakeSuccess(c)
  \/ \E c \in Calls : HandshakeError(c)
  \/ \E c \in Calls : LoginCallRejects(c)
  \/ \E c \in Calls : Refresh(c)
  \/ \E c \in Calls : IsAuthenticatedSettles(c)
  \/ \E c \in Calls : ReadSession(c)
  \/ \E c \in Calls : AfterReadSession(c)
  \/ \E c \in Calls : Logout(c)
  \/ \E c \in Calls : LogoutSettles(c)
  \/ \E c \in Calls : LogoutResumes(c)

Spec == Init /\ [][Next]_vars

(* the initialisation effect under the scheduling the code relies on: the event
   loop runs every continuation that is ready, and the external client's create()
   and isAuthenticated() promises of the effect eventually settle *)
InitFairness ==
  /\ WF_vars(InitializeStart)
  /\ WF_vars(CreateSettles)
  /\ WF_vars(InitAfterCreate)
  /\ WF_vars(InitIsAuthenticatedSettles)
  /\ WF_vars(InitReadSession)
  /\ WF_vars(InitAfterReadSession)

FairSpec == Init /\ [][Next]_vars /\ InitFairness

\* a step of call c after its start: an external call of c completes, or a
\* continuation of c that is ready runs
CallStep(c) ==
  \/ HandshakeSuccess(c)
  \/ HandshakeError(c)
  \/ LoginCallRejects(c)
  \/ IsAuthenticatedSettles(c)
  \/ ReadSession(c)
  \/ AfterReadSession(c)
  \/ LogoutSettles(c)
  \/ LogoutResumes(c)

(* consumers' calls under the scheduling the code relies on: every
   isAuthenticated() and logout() of the client eventually settles, every
   handshake eventually reports its outcome, and the event loop runs every
   continuation that is ready *)
CallFairness == \A c \in Calls : WF_vars(CallStep(c))

FairCallsSpec == Init /\ [][Next]_vars /\ CallFairness

(* ------------------------------ properties ----------------------------- *)

\* the step in which the readSession of call c resumes after its await
ReadSessionResumes(c) ==
  calls[c].pc = "isAuthenticated" /\ calls'[c].pc = "readSession"

\* the step in which the readSession of the effect resumes after its await
InitReadSessionResumes ==
  init.pc = "isAuthenticated" /\ init'.pc = "readSession"

\* the step in which the awaitable of login call c completes successfully after a handshake
LoginResolves(c) ==
  calls[c].kind = "login" /\ calls[c].pc = "readSession" /\ calls'[c].pc = "resolved"

\* the step in which the awaitable of login call c completes as a failure
LoginRejects(c) ==
  calls[c].kind = "login" /\ calls[c].pc = "handshake" /\ calls'[c].pc = "rejected"

\* the step in which the awaitable of logout call c completes after client.logout() settled
LogoutCompletes(c) ==
  calls[c].pc = "logout" /\ calls'[c].pc \in {"resolved", "rejected"}

\* C1 (as claimed): once mounted is false, no step changes client, identity,
\* isInitializing or error
C1_NoWriteAfterTeardown ==
  [][~mounted => UNCHANGED <<client, identity, isInitializing, error>>]_vars

\* C2: a readSession that resumes after teardown, whatever isAuthenticated()
\* settled with, and the caller that resumes after it, leave identity, error
\* and isInitializing as they are
C2_LateReadSessionWritesNothing ==
  [][ (/\ ~mounted
       /\ \/ InitReadSessionResumes
          \/ init.pc = "readSession" /\ init'.pc = "done"
          \/ \E c \in Calls : ReadSessionResumes(c)
          \/ \E c \in Calls : calls[c].pc = "readSession" /\ calls'[c].pc = "resolved")
      => UNCHANGED <<identity, error, isInitializing>> ]_vars

\* C2 witness: the effect's readSession resumed after teardown and returned at
\* the mounted check, and the flag is still set
C2_Witness ==
  /\ ~mounted
  /\ init.pc = "readSession"
  /\ init.ret = "unmounted"
  /\ isInitializing
  /\ client = AuthClient

\* C3: a readSession that resumes with a failure of isAuthenticated() while
\* mounted sets identity to null and error to the failure's message: the message
\* of a thrown Error, the text of a thrown string
C3_ReadSessionFailsClosed ==
  [][ /\ \A c \in Calls :
           (ReadSessionResumes(c) /\ mounted /\ calls[c].settled.tag = "throw")
           => (identity' = NullIdentity /\ error' = calls[c].settled.e.text)
      /\ (InitReadSessionResumes /\ mounted /\ init.settled.tag = "throw")
           => (identity' = NullIdentity /\ error' = init.settled.e.text) ]_vars

\* C3 witness: a refresh's readSession has failed while mounted and was the
\* last to write both fields
C3_Witness ==
  \E c \in Calls :
    /\ calls[c].kind = "refresh"
    /\ calls[c].pc = "readSession"
    /\ calls[c].ret = "failed"
    /\ mounted
    /\ identity = NullIdentity
    /\ error = "network down"
    /\ lastWrite = [identity |-> c, error |-> c]

\* C4: when a logout that reached client.logout() completes while mounted,
\* identity is null, whether client.logout() fulfilled or rejected
C4_DefensiveLogout ==
  [][ \A c \in Calls :
        (LogoutCompletes(c) /\ mounted) => identity' = NullIdentity ]_vars

\* C4 witness: a logout issued after a login that completed has itself completed
\* with client.logout() rejected, while mounted, and was the last to write identity
C4_Witness ==
  /\ MaxCalls >= 2
  /\ calls[1].kind = "login"
  /\ calls[1].pc = "resolved"
  /\ calls[2].kind = "logout"
  /\ calls[2].pc = "rejected"
  /\ mounted
  /\ lastWrite.identity = 2
  /\ identity = NullIdentity

\* C5 (as claimed): the awaitable of logout never completes as a failure
C5_LogoutNeverRejects ==
  \A c \in Calls : ~(calls[c].kind = "logout" /\ calls[c].pc = "rejected")

\* C6: a login called while client is null completes in that step, resolved,
\* with no handshake started; error becomes the not-ready message and identity,
\* isInitializing and client are unchanged
C6_LoginNotReady ==
  [][ \A c \in Calls :
        (calls[c].pc = "idle" /\ calls'[c].kind = "login" /\ client = NullClient)
        => /\ calls'[c] = Completed("login", "resolved")
           /\ error' = NotReady
           /\ UNCHANGED <<identity, isInitializing, client>> ]_vars

\* C6 witness: create() has failed, a login was called after it and has completed
C6_Witness ==
  \E c \in Calls :
    /\ calls[c] = Completed("login", "resolved")
    /\ init.pc = "done"
    /\ client = NullClient
    /\ error = NotReady
    /\ lastWrite.error = c
    /\ identity = NullIdentity

\* C7 (as claimed): when the awaitable of a login completes successfully after a
\* handshake, isAuthenticated is true and error is null
C7_LoginSuccessIsAuthenticated ==
  [][ \A c \in Calls :
        LoginResolves(c) => (identity' # NullIdentity /\ error' = NullError) ]_vars

\* C7 (amended): when the awaitable of a login completes successfully after a
\* handshake, and the readSession that followed the handshake observed
\* authenticated while mounted, and that login is the last task to have written
\* identity and error, then isAuthenticated is true and error is null
C7_LoginSuccessAfterAuthenticatedRead ==
  [][ \A c \in Calls :
        (/\ LoginResolves(c)
         /\ calls[c].ret = "authed"
         /\ lastWrite = [identity |-> c, error |-> c])
        => (identity' # NullIdentity /\ error' = NullError) ]_vars

\* C7 witness: a login has completed successfully after a handshake with the
\* snapshot authenticated and free of error
C7_Witness ==
  \E c \in Calls :
    /\ calls[c] = Completed("login", "resolved")
    /\ lastWrite = [identity |-> c, error |-> c]
    /\ identity # NullIdentity
    /\ error = NullError
    /\ mounted

\* C8 (as claimed): when the awaitable of a login completes as a failure, error
\* is non-null and identity is unchanged
C8_LoginFailureIsMirrored ==
  [][ \A c \in Calls :
        LoginRejects(c) => (error' # NullError /\ identity' = identity) ]_vars

\* C9 (as claimed): the completion callback the client invokes for a login is
\* the controller's, never one the caller's options carried
C9_ControllerCallbacksInvoked ==
  \A c \in Calls :
    calls[c].settled.tag \notin {"caller onSuccess", "caller onError"}

\* C10 (as claimed): isInitializing eventually becomes false
C10_EventuallyInitialized == <>(isInitializing = FALSE)

\* C10 (amended): isInitializing eventually becomes false unless teardown fires
\* before the effect's function has left through finally
C10_EventuallyInitializedUnlessTeardown ==
  <>(isInitializing = FALSE \/ mounted = FALSE)

\* C10 witness: the effect has completed after create() failed and the flag is cleared
C10_Witness ==
  /\ init.pc = "done"
  /\ client = NullClient
  /\ error = "network down"
  /\ isInitializing = FALSE
  /\ mounted

\* C11: isInitializing starts true, and no step of the effect, of a login, logout
\* or refresh, or of teardown turns it from false to true: it changes at most
\* once, from true to false
C11_InitializingMonotone ==
  /\ isInitializing = TRUE
  /\ [][isInitializing = FALSE => isInitializing' = FALSE]_vars

\* C11 witness: the flag is cleared and a login has since run a handshake to completion
C11_Witness ==
  /\ isInitializing = FALSE
  /\ \E c \in Calls :
       /\ calls[c] = Completed("login", "resolved")
       /\ lastWrite.identity = c
       /\ identity # NullIdentity

\* no login has been called so far
NoLoginCalled == \A c \in Calls : calls[c].kind # "login"

\* the step in which the effect's async function completes
InitCompletes == init.pc # "done" /\ init'.pc = "done"

\* C12 (as claimed): once initialize has completed and while login has never
\* been called, isAuthenticated is false, principalText is null and
\* isInitializing is false (stated here for the runs without teardown only)
C12_AnonymousWithoutLogin ==
  (init.pc = "done" /\ NoLoginCalled /\ mounted)
  => (~isAuthenticated /\ principalText = NullText /\ isInitializing = FALSE)

\* C12 (amended): when initialize completes while mounted and login has never
\* been called, isInitializing is false; and isAuthenticated is false and
\* principalText is null provided create() failed, or the effect's readSession
\* did not observe authenticated and no refresh or logout wrote identity since
C12_AnonymousUnlessClientAuthenticated ==
  [][ (InitCompletes /\ mounted /\ NoLoginCalled)
      => /\ isInitializing' = FALSE
         /\ (\/ init.pc = "create"
             \/ /\ init.ret \in {"anonymous", "failed"}
                /\ lastWrite.identity = InitTask)
            => (identity' = NullIdentity /\ principalTextOf(identity') = NullText) ]_vars

\* C12 witness: initialize has completed after a session read that failed, no
\* login was called, and the snapshot is anonymous and initialized
C12_Witness ==
  /\ init.pc = "done"
  /\ mounted
  /\ NoLoginCalled
  /\ client = AuthClient
  /\ error = "denied"
  /\ lastWrite = [identity |-> InitTask, error |-> InitTask]
  /\ ~isAuthenticated
  /\ principalText = NullText
  /\ isInitializing = FALSE

\* C13: when the effect resumes after create() failed with message m while
\* mounted, it completes without a session read, with isAuthenticated false,
\* principalText null, isInitializing false, error = m and client still null
C13_CreateFailure ==
  [][ (/\ init.pc = "create"
       /\ init.settled.tag = "throw"
       /\ init'.pc # "create"
       /\ mounted)
      => /\ init'.pc = "done"
         /\ identity' = NullIdentity
         /\ principalTextOf(identity') = NullText
         /\ isInitializing' = FALSE
         /\ error' = init.settled.e.text
         /\ client' = NullClient ]_vars

\* C13 witness: create() failed with the string "denied", nothing else was
\* called, and the effect has completed
C13_Witness ==
  /\ init.pc = "done"
  /\ mounted
  /\ \A c \in Calls : calls[c] = IdleCall
  /\ client = NullClient
  /\ error = "denied"
  /\ ~isAuthenticated
  /\ principalText = NullText
  /\ isInitializing = FALSE

\* no login, logout or refresh has been called so far
NoCallMade == \A c \in Calls : calls[c] = IdleCall

\* C14: when the effect's readSession resumes with isAuthenticated() = true
\* while mounted, it sets identity to the identity i the client returns, with
\* isInitializing still true; when the effect then completes, with no teardown
\* and no other call made, the snapshot is isAuthenticated = true,
\* principalText = the text of i's principal, isInitializing = false,
\* error = null; and isInitializing is never false before the effect completes
C14_AuthenticatedInitialization ==
  /\ [](isInitializing = FALSE => init.pc = "done")
  /\ [][ /\ (InitReadSessionResumes /\ mounted /\ init.settled.tag = "true")
            => /\ identity' \in Identities
               /\ principalTextOf(identity') = identity'
               /\ isInitializing' = TRUE
         /\ (/\ init.pc = "readSession"
             /\ init.ret = "authed"
             /\ InitCompletes
             /\ mounted
             /\ NoCallMade)
            => /\ identity' \in Identities
               /\ principalTextOf(identity') = identity'
               /\ isInitializing' = FALSE
               /\ error' = NullError ]_vars

\* C14 witness: the client reported authenticated with the identity whose
\* principal encodes to "abc-def", nothing else was called, the effect completed
C14_Witness ==
  /\ init.pc = "done"
  /\ mounted
  /\ NoCallMade
  /\ isAuthenticated
  /\ principalText = "abc-def"
  /\ isInitializing = FALSE
  /\ error = NullError

\* the step in which call c is made, as a call of the given kind
CallStarts(c, kind) == calls[c].pc = "idle" /\ calls'[c].kind = kind

\* C15: a refresh called while client is null completes in that step without
\* a call of the external client, and leaves identity, error, isInitializing
\* and client unchanged
C15_RefreshWithoutClient ==
  [][ \A c \in Calls :
        (CallStarts(c, "refresh") /\ client = NullClient)
        => /\ calls'[c] = Completed("refresh", "resolved")
           /\ UNCHANGED <<identity, error, isInitializing, client>> ]_vars

\* C15 witness: create() has failed, a refresh was called after it and has
\* completed, and the error of the failed create() is still there
C15_Witness ==
  \E c \in Calls :
    /\ calls[c] = Completed("refresh", "resolved")
    /\ \A d \in Calls : d # c => calls[d] = IdleCall
    /\ init.pc = "done"
    /\ client = NullClient
    /\ error = "network down"
    /\ identity = NullIdentity
    /\ isInitializing = FALSE

\* initialize has failed: the effect completed and left client null
InitFailed == init.pc = "done" /\ client = NullClient

\* C16 (as claimed): after a failed initialize every login, logout and refresh
\* completes at once with no client call, leaves identity null and client null,
\* and sets error to a non-null message
C16_NoOpsSetError ==
  [][ \A c \in Calls :
        (InitFailed /\ calls[c].pc = "idle" /\ calls'[c].pc # "idle")
        => /\ calls'[c].pc = "resolved"
           /\ identity' = NullIdentity
           /\ client' = NullClient
           /\ error' # NullError ]_vars

\* C16 (amended): after a failed initialize every login, logout and refresh
\* completes at once with no client call and leaves identity null and client
\* null; login sets error to the not-ready message, logout sets error to null,
\* refresh leaves error unchanged
C16_NoOpsAfterFailedInit ==
  [][ \A c \in Calls :
        (InitFailed /\ calls[c].pc = "idle" /\ calls'[c].pc # "idle")
        => /\ calls'[c] = Completed(calls'[c].kind, "resolved")
           /\ identity = NullIdentity
           /\ identity' = NullIdentity
           /\ client' = NullClient
           /\ calls'[c].kind = "login" => error' = NotReady
           /\ calls'[c].kind = "logout" => error' = NullError
           /\ calls'[c].kind = "refresh" => error' = error ]_vars

\* C16 witness: create() failed, then a logout was called and completed,
\* clearing the error, and a refresh after it completed leaving error null
C16_Witness ==
  /\ MaxCalls >= 2
  /\ InitFailed
  /\ calls[1] = Completed("logout", "resolved")
  /\ calls[2] = Completed("refresh", "resolved")
  /\ lastWrite.error = 1
  /\ error = NullError
  /\ identity = NullIdentity
  /\ isInitializing = FALSE

\* C17: AuthClient.create() is called at most once (the effect enters its
\* create() await only from its start and never returns to its start), client
\* is written only by the effect's continuation of a successful create(), and
\* once client is non-null no step changes it
C17_ClientCreatedOnce ==
  [][ /\ init.pc # "start" => init'.pc # "start"
      /\ (init'.pc = "create" /\ init.pc # "create") => init.pc = "start"
      /\ client # NullClient => client' = client
      /\ client' # client
         => /\ init.pc = "create"
            /\ init.settled.tag = "ok"
            /\ client' = AuthClient ]_vars

\* C17 witness: the client is still there after a logout whose client.logout()
\* failed and a login whose handshake failed
C17_Witness ==
  /\ MaxCalls >= 2
  /\ client = AuthClient
  /\ init.pc = "done"
  /\ calls[1] = Completed("logout", "rejected")
  /\ calls[2] = Completed("login", "rejected")
  /\ error # NullError
  /\ lastWrite.identity = 1

\* what a readSession that observed outcome o leaves in identity'
ReadSessionResult(o) ==
  IF o.tag = "true" THEN identity' \in Identities ELSE identity' = NullIdentity

\* C18: while mounted, every completing readSession (of the effect, a refresh
\* or a login) sets identity to its own result and every completing
\* client.logout() sets identity to null, whatever was written before and in
\* whatever order the calls were started, and identity changes in no other step
C18_LastWriteWins ==
  [][ mounted
      => /\ \A c \in Calls :
              ReadSessionResumes(c)
              => ReadSessionResult(calls[c].settled) /\ lastWrite'.identity = c
         /\ InitReadSessionResumes
            => ReadSessionResult(init.settled) /\ lastWrite'.identity = InitTask
         /\ \A c \in Calls :
              LogoutCompletes(c)
              => identity' = NullIdentity /\ lastWrite'.identity = c
         /\ identity' # identity
            => \/ InitReadSessionResumes
               \/ \E c \in Calls : ReadSessionResumes(c) \/ LogoutCompletes(c) ]_vars

\* C18 witness: call 1, a refresh started before logout call 2, completed its
\* readSession after that logout completed, and its authenticated result
\* replaced the logout's null
C18_Witness ==
  /\ MaxCalls >= 2
  /\ mounted
  /\ calls[1].kind = "refresh"
  /\ calls[1].pc = "readSession"
  /\ calls[1].ret = "authed"
  /\ calls[2] = Completed("logout", "resolved")
  /\ lastWrite.identity = 1
  /\ identity \in Identities

\* call c was started, has not completed, and is not a login that handed the
\* client a callback of the caller
InProgress(c) ==
  /\ calls[c].pc \notin {"idle", "resolved", "rejected"}
  /\ calls[c].callbacks.onSuccess # "caller"
  /\ calls[c].callbacks.onError # "caller"

\* C19: when every external client call eventually completes and every
\* handshake eventually reports an outcome, every started login (without
\* callbacks of the caller), logout and refresh eventually completes, however
\* the calls overlap
C19_EveryCallCompletes ==
  \A c \in Calls : InProgress(c) ~> calls[c].pc \in {"resolved", "rejected"}

\* C19 witness: a login and a logout that overlapped (the logout was started
\* while the login's handshake was open, and completed first) have both completed
C19_Witness ==
  /\ MaxCalls >= 2
  /\ calls[1] = Completed("login", "resolved")
  /\ calls[2] = Completed("logout", "resolved")
  /\ lastWrite.identity = 1
  /\ lastWrite.error = 2
  /\ client = AuthClient
  /\ mounted

\* C20: whenever identity is non-null a client exists, and identity becomes
\* (or changes to) a non-null value only in a step in which a readSession on
\* that client resumes having observed isAuthenticated() = true
C20_AuthenticatedOnlyByReadSession ==
  /\ [](identity # NullIdentity => client = AuthClient)
  /\ [][ (identity' # identity /\ identity' # NullIdentity)
         => /\ client = AuthClient
            /\ \/ InitReadSessionResumes /\ init.settled.tag = "true"
               \/ \E c \in Calls :
                    ReadSessionResumes(c) /\ calls[c].settled.tag = "true" ]_vars

\* C20 witness: after a login whose handshake failed, the readSession of a
\* refresh observed isAuthenticated() = true and made the session authenticated
C20_Witness ==
  /\ MaxCalls >= 2
  /\ calls[1] = Completed("login", "rejected")
  /\ calls[2].kind = "refresh"
  /\ calls[2].pc = "readSession"
  /\ calls[2].ret = "authed"
  /\ lastWrite.identity = 2
  /\ identity \in Identities
  /\ client = AuthClient

====
